---- MODULE Spec2Model ----
(***************************************************************************)
(* A model of the Sudoku board engine of src/src/game.rs: the Cell and     *)
(* Board types, the row / column / subsquare views, Board::check,          *)
(* Board::set, Board::solve_one and the recursive Board::solve.            *)
(*                                                                         *)
(* A bit mask (u16, or the i32 of views::check) is modelled as the set of  *)
(* the positions of its one-bits: & is \cap, | is \cup, ^ toggles          *)
(* membership, count_ones is Cardinality, trailing_zeros is the minimum.   *)
(***************************************************************************)
EXTENDS Integers, Sequences, FiniteSets, TLC

VARIABLES
    cells,            \* Board.cells of the caller's board
    overflow_checks,  \* build profile: TRUE = overflow checks on (debug), FALSE = wrapping (release)
    pc,               \* "idle", "solve" (a solve call is on the stack) or "aborted" (panicked)
    stack,            \* the activation records of the running solve call, outermost first
    result,           \* what the last finished call returned
    last,             \* the last finished call: "none", "check", "set", "solve_one", "solve"
    before,           \* the caller's board when the last call was made
    ret,              \* the (options, changed) pair of the last successful solve_one
    sets,             \* the number of set calls the caller has made
    bitset            \* the BitSet values at hand and the Biterator running over one of them

vars == <<cells, overflow_checks, pc, stack, result, last, before, ret, sets, bitset>>

----------------------------------------------------------------------------
(* Cell and the constants of the board *)

Value(v) == [tag |-> "Value", v |-> v, opts |-> {}]

Options(o) == [tag |-> "Options", v |-> 0, opts |-> o]

ALL == 0..8

ANY == Options(ALL)

Idx == 0..8

U16Bits == 16

I32Bits == 32

U8Max == 255

IterationCeiling == 1000

----------------------------------------------------------------------------
(* Results *)

Ok == [kind |-> "Ok", msg |-> "", x |-> 0, y |-> 0]

ErrMultiple(v) == [kind |-> "Err", msg |-> "Multiple seen", x |-> v, y |-> 0]

ErrNoOptions(r, c) == [kind |-> "Err", msg |-> "There are no remaining options", x |-> r, y |-> c]

ErrAllFail == [kind |-> "Err", msg |-> "All options lead to failure!", x |-> 0, y |-> 0]

ErrNoClose == [kind |-> "Err", msg |-> "Solution did not close in 1000 iterations", x |-> 0, y |-> 0]

Panic == [kind |-> "Panic", msg |-> "arithmetic overflow", x |-> 0, y |-> 0]

NoResult == [kind |-> "None", msg |-> "", x |-> 0, y |-> 0]

----------------------------------------------------------------------------
(* Views *)

row(b, idx) == [i \in 1..9 |-> b[idx][i - 1]]

col(b, idx) == [i \in 1..9 |-> b[i - 1][idx]]

subsquare(b, ss_ridx, ss_cidx) ==
    [i \in 1..9 |-> b[ss_ridx * 3 + ((i - 1) \div 3)][ss_cidx * 3 + ((i - 1) % 3)]]

\* The position of the one-bit of `1 << (v - 1)` on a `width`-bit integer, v a u8;
\* -1 when the subtraction or the shift overflows in a build that checks overflow.
ShiftBit(v, width) ==
    LET amount == IF v >= 1 THEN v - 1 ELSE U8Max
    IN  IF (v < 1 \/ amount >= width) /\ overflow_checks
        THEN -1
        ELSE amount % width

RECURSIVE check_from(_, _, _)
check_from(it, i, mask) ==
    IF i > 9 THEN Ok
    ELSE IF it[i].tag = "Value"
         THEN LET bit == ShiftBit(it[i].v, I32Bits)
              IN  IF bit = -1 THEN Panic
                  ELSE IF bit \in mask THEN ErrMultiple(it[i].v)
                  ELSE check_from(it, i + 1, mask \cup {bit})
         ELSE check_from(it, i + 1, mask)

views_check(it) == check_from(it, 1, {})

RECURSIVE mask_from(_, _, _)
mask_from(it, i, mask) ==
    IF i > 9 THEN [panic |-> FALSE, mask |-> mask]
    ELSE IF it[i].tag = "Value"
         THEN LET bit == ShiftBit(it[i].v, U16Bits)
              IN  IF bit = -1 THEN [panic |-> TRUE, mask |-> {}]
                  ELSE mask_from(it, i + 1,
                                 IF bit \in mask THEN mask \ {bit} ELSE mask \cup {bit})
         ELSE mask_from(it, i + 1, mask)

views_mask(it) == mask_from(it, 1, ALL)

views_frequency(it, value) ==
    LET mask == ShiftBit(value, U16Bits)
    IN  Cardinality({i \in 1..9 :
            IF it[i].tag = "Value" THEN it[i].v = value ELSE mask \in it[i].opts})

----------------------------------------------------------------------------
(* Board::check and Board::set *)

\* view with the third loop of Board::check over the rows again.
view_without_subsquares(b, k) ==
    IF k < 9 THEN row(b, k)
    ELSE IF k < 18 THEN col(b, k - 9)
    ELSE row(b, k - 18)

\* The 27 views in the order Board::check visits them.
view(b, k) ==
    IF k < 9 THEN row(b, k)
    ELSE IF k < 18 THEN col(b, k - 9)
    ELSE subsquare(b, (k - 18) \div 3, (k - 18) % 3)

RECURSIVE board_check_from(_, _)
board_check_from(b, k) ==
    IF k > 26 THEN Ok
    ELSE LET r == views_check(view(b, k))
         IN  IF r.kind = "Ok" THEN board_check_from(b, k + 1) ELSE r

check(b) == board_check_from(b, 0)

\* set without the call of check.
set_unchecked(b, r, c, value) ==
    [cells |-> [b EXCEPT ![r][c] = value], res |-> Ok]

set(b, r, c, value) ==
    LET nb == [b EXCEPT ![r][c] = value]
    IN  [cells |-> nb, res |-> check(nb)]

----------------------------------------------------------------------------
(* Board::solve_one *)

Min(S) == CHOOSE m \in S : \A n \in S : m <= n

\* is_power_of_two with the test taken for "at most two bits are set".
is_power_of_two_or_pair(opts) == Cardinality(opts) <= 2

\* opts & (opts - 1) == 0 for a non-zero opts: exactly one bit is set.
is_power_of_two(opts) == Cardinality(opts) = 1

\* shifter >>= 1
shr(shifter) == {i - 1 : i \in shifter \ {0}}

\* The locals of solve_one and where it stands: res is Ok while it runs, and the
\* error or the panic it ended with otherwise.
sweep(b, options, changed, res) ==
    [cells |-> b, options |-> options, changed |-> changed, res |-> res]

\* naked_store without `changed = true` after a cell became a Value.
naked_store_unflagged(st, s, single, narrowed) ==
    IF s.res.kind # "Ok" THEN sweep(s.cells, st.options, st.changed, s.res)
    ELSE IF single THEN sweep(s.cells, st.options, st.changed, Ok)
    ELSE sweep(s.cells, st.options + 1, st.changed \/ narrowed, Ok)

\* naked_store without `options += 1`.
naked_store_uncounted(st, s, single, narrowed) ==
    IF s.res.kind # "Ok" THEN sweep(s.cells, st.options, st.changed, s.res)
    ELSE IF single THEN sweep(s.cells, st.options, TRUE, Ok)
    ELSE sweep(s.cells, st.options, st.changed \/ narrowed, Ok)

\* naked_store with `changed = true` for every cell that stays an Options.
naked_store_always_changed(st, s, single, narrowed) ==
    IF s.res.kind # "Ok" THEN sweep(s.cells, st.options, st.changed, s.res)
    ELSE IF single THEN sweep(s.cells, st.options, TRUE, Ok)
    ELSE sweep(s.cells, st.options + 1, TRUE, Ok)

\* First loop, after self.set(...)?: s is what set returned; single tells
\* whether the cell became a Value, narrowed whether og_opts != opts.
naked_store(st, s, single, narrowed) ==
    IF s.res.kind # "Ok" THEN sweep(s.cells, st.options, st.changed, s.res)
    ELSE IF single THEN sweep(s.cells, st.options, TRUE, Ok)
    ELSE sweep(s.cells, st.options + 1, st.changed \/ narrowed, Ok)

\* naked_opts without `og_opts &`.
naked_opts_masks_only(og_opts, mr, mc, ms) == mr.mask \cap mc.mask \cap ms.mask

\* og_opts & mask(row) & mask(col) & mask(subsquare)
naked_opts(og_opts, mr, mc, ms) == og_opts \cap mr.mask \cap mc.mask \cap ms.mask

\* naked_narrow without the `opts == 0` branch.
naked_narrow_unguarded(st, ridx, cidx, og_opts, opts) ==
    naked_store(st,
                set(st.cells, ridx, cidx,
                    IF is_power_of_two(opts) THEN Value(Min(opts) + 1) ELSE Options(opts)),
                is_power_of_two(opts),
                og_opts # opts)

\* naked_narrow leaving a cell with several options as it was: og_opts is
\* stored for opts, and the cell does not count as changed.
naked_narrow_unstored(st, ridx, cidx, og_opts, opts) ==
    IF opts = {} THEN [st EXCEPT !.res = ErrNoOptions(ridx, cidx)]
    ELSE naked_store(st,
                     set(st.cells, ridx, cidx,
                         IF is_power_of_two(opts) THEN Value(Min(opts) + 1) ELSE Options(og_opts)),
                     is_power_of_two(opts),
                     FALSE)

\* First loop, the if / else if / else on opts.
naked_narrow(st, ridx, cidx, og_opts, opts) ==
    IF opts = {} THEN [st EXCEPT !.res = ErrNoOptions(ridx, cidx)]
    ELSE naked_store(st,
                     set(st.cells, ridx, cidx,
                         IF is_power_of_two(opts) THEN Value(Min(opts) + 1) ELSE Options(opts)),
                     is_power_of_two(opts),
                     og_opts # opts)

\* First loop, the body for one cell: narrow an Options cell by the masks of its
\* row, column and subsquare.
naked_cell(st, ridx, cidx) ==
    LET b == st.cells
        og_opts == b[ridx][cidx].opts
        mr == views_mask(row(b, ridx))
        mc == views_mask(col(b, cidx))
        ms == views_mask(subsquare(b, ridx \div 3, cidx \div 3))
    IN  IF b[ridx][cidx].tag # "Options" THEN st
        ELSE IF mr.panic \/ mc.panic \/ ms.panic THEN [st EXCEPT !.res = Panic]
        ELSE naked_narrow(st, ridx, cidx, og_opts, naked_opts(og_opts, mr, mc, ms))

RECURSIVE naked_cols(_, _, _)
\* for cidx in 0..9, from cidx on; nx is the sweep after the body for cidx.
naked_cols_next(nx, ridx, cidx) ==
    IF nx.res.kind # "Ok" THEN nx ELSE naked_cols(nx, ridx, cidx + 1)

naked_cols(st, ridx, cidx) ==
    IF cidx > 8 THEN st ELSE naked_cols_next(naked_cell(st, ridx, cidx), ridx, cidx)

RECURSIVE naked_rows(_, _)
\* for ridx in 0..9, from ridx on; nx is the sweep after row ridx.
naked_rows_next(nx, ridx) ==
    IF nx.res.kind # "Ok" THEN nx ELSE naked_rows(nx, ridx + 1)

naked_rows(st, ridx) ==
    IF ridx > 8 THEN st ELSE naked_rows_next(naked_cols(st, ridx, 0), ridx)

\* The while loop of the second pass: the first value of the cell's options, in
\* ascending order, that occurs once in its row, column or subsquare; 0 if none.
RECURSIVE hidden_value(_, _, _, _, _)
hidden_value(b, ridx, cidx, value, shifter) ==
    IF shifter = {} THEN 0
    ELSE IF 0 \in shifter
            /\ (\/ views_frequency(row(b, ridx), value) = 1
                \/ views_frequency(col(b, cidx), value) = 1
                \/ views_frequency(subsquare(b, ridx \div 3, cidx \div 3), value) = 1)
         THEN value
         ELSE hidden_value(b, ridx, cidx, value + 1, shr(shifter))

\* Second loop, after self.set(...)?: s is what set returned.
hidden_store(st, s) ==
    IF s.res.kind # "Ok" THEN sweep(s.cells, st.options, st.changed, s.res)
    ELSE sweep(s.cells, st.options - 1, TRUE, Ok)

\* Second loop, the body for one cell whose while loop found value (0: none).
hidden_fix(st, ridx, cidx, value) ==
    IF value = 0 THEN st
    ELSE hidden_store(st, set(st.cells, ridx, cidx, Value(value)))

\* Second loop, the body for one cell: fix a cell that is the only one of a range
\* that can hold a value.
hidden_cell(st, ridx, cidx) ==
    IF st.cells[ridx][cidx].tag # "Options" THEN st
    ELSE hidden_fix(st, ridx, cidx,
                    hidden_value(st.cells, ridx, cidx, 1, st.cells[ridx][cidx].opts))

RECURSIVE hidden_cols(_, _, _)
hidden_cols_next(nx, ridx, cidx) ==
    IF nx.res.kind # "Ok" THEN nx ELSE hidden_cols(nx, ridx, cidx + 1)

hidden_cols(st, ridx, cidx) ==
    IF cidx > 8 THEN st ELSE hidden_cols_next(hidden_cell(st, ridx, cidx), ridx, cidx)

RECURSIVE hidden_rows(_, _)
hidden_rows_next(nx, ridx) ==
    IF nx.res.kind # "Ok" THEN nx ELSE hidden_rows(nx, ridx + 1)

hidden_rows(st, ridx) ==
    IF ridx > 8 THEN st ELSE hidden_rows_next(hidden_cols(st, ridx, 0), ridx)

\* self.check()? after a loop: st is the sweep after the loop, c what check returned.
checked(st, c) ==
    IF st.res.kind # "Ok" THEN st ELSE [st EXCEPT !.res = c]

\* The second loop and the check after it; p1 is the sweep after the first check.
second_pass(p1) ==
    IF p1.res.kind # "Ok" THEN p1 ELSE hidden_rows(p1, 0)

check_after(st) == checked(st, check(st.cells))

\* solve_one with `let mut changed = true`.
solve_one_changed(b) ==
    check_after(second_pass(check_after(naked_rows(sweep(b, 0, TRUE, Ok), 0))))

solve_one(b) ==
    check_after(second_pass(check_after(naked_rows(sweep(b, 0, FALSE, Ok), 0))))

----------------------------------------------------------------------------
(* Board::solve, one activation record per recursive call *)

\* mode "loop": at the head of the for loop; "spec": in the while loop over the
\* options of the speculation candidate; "ret": about to return res.
frame(b, iter, mode, rdx, cdx, value, shifter, res) ==
    [cells |-> b, iter |-> iter, mode |-> mode, candidate_rdx |-> rdx,
     candidate_cdx |-> cdx, value |-> value, shifter |-> shifter, res |-> res]

new_frame(b) == frame(b, 1, "loop", 0, 0, 0, {}, NoResult)

\* The scan that picks the speculation candidate; sel is
\* (candidate_rdx, candidate_cdx, count).
\* candidate_cols with < for <=.
RECURSIVE candidate_cols_strict(_, _, _, _)
candidate_cols_strict(b, sel, ridx, cidx) ==
    IF cidx > 8 THEN sel
    ELSE IF b[ridx][cidx].tag = "Options" /\ Cardinality(b[ridx][cidx].opts) < sel.count
         THEN candidate_cols_strict(b, [rdx |-> ridx, cdx |-> cidx,
                                        count |-> Cardinality(b[ridx][cidx].opts)], ridx, cidx + 1)
         ELSE candidate_cols_strict(b, sel, ridx, cidx + 1)

RECURSIVE candidate_cols(_, _, _, _)
candidate_cols(b, sel, ridx, cidx) ==
    IF cidx > 8 THEN sel
    ELSE IF b[ridx][cidx].tag = "Options" /\ Cardinality(b[ridx][cidx].opts) <= sel.count
         THEN candidate_cols(b, [rdx |-> ridx, cdx |-> cidx,
                                 count |-> Cardinality(b[ridx][cidx].opts)], ridx, cidx + 1)
         ELSE candidate_cols(b, sel, ridx, cidx + 1)

RECURSIVE candidate_rows(_, _, _)
\* count_ones is never negative: the test only makes the scan of a row finish
\* before the scan of the next row starts.
candidate_rows_next(b, nx, ridx) ==
    IF nx.count >= 0 THEN candidate_rows(b, nx, ridx + 1) ELSE nx

candidate_rows(b, sel, ridx) ==
    IF ridx > 8 THEN sel ELSE candidate_rows_next(b, candidate_cols(b, sel, ridx, 0), ridx)

candidate(b) == candidate_rows(b, [rdx |-> 0, cdx |-> 0, count |-> 9], 0)

\* next_option going to the largest option that is left instead of the smallest.
next_option_largest(value, shifter) ==
    IF shifter = {} THEN [value |-> value, shifter |-> shifter]
    ELSE [value |-> value + CHOOSE i \in shifter : \A j \in shifter : j <= i, shifter |-> {0}]

\* Skip the iterations of the while loop whose bit is clear.
RECURSIVE next_option(_, _)
next_option(value, shifter) ==
    IF shifter = {} \/ 0 \in shifter THEN [value |-> value, shifter |-> shifter]
    ELSE next_option(value + 1, shr(shifter))

top == stack[Len(stack)]

replace_top(f) == [stack EXCEPT ![Len(stack)] = f]

\* The caller's board is the board of the outermost activation record.
stack_becomes(s) ==
    /\ stack' = s
    /\ cells' = s[1].cells

continue_solve(f) ==
    /\ stack_becomes(replace_top(f))
    /\ UNCHANGED <<pc, result>>

abort(f) ==
    /\ stack_becomes(replace_top(f))
    /\ pc' = "aborted"
    /\ result' = Panic

\* The sweep stalled: sel is the candidate the scan picked.
stalled(s, sel) ==
    IF s.cells[sel.rdx][sel.cdx].tag # "Options"
    THEN continue_solve([top EXCEPT !.cells = s.cells, !.iter = @ + 1])
    ELSE continue_solve(frame(s.cells, top.iter, "spec", sel.rdx, sel.cdx, 1,
                              s.cells[sel.rdx][sel.cdx].opts, NoResult))

\* The match on what solve_one returned, s.
swept(s) ==
    IF s.res.kind = "Panic" THEN abort([top EXCEPT !.cells = s.cells])
    ELSE IF s.res.kind = "Err"
    THEN continue_solve([top EXCEPT !.cells = s.cells, !.mode = "ret", !.res = s.res])
    ELSE IF s.options = 0
    THEN continue_solve([top EXCEPT !.cells = s.cells, !.mode = "ret", !.res = Ok])
    ELSE IF s.changed
    THEN continue_solve([top EXCEPT !.cells = s.cells, !.iter = @ + 1])
    ELSE stalled(s, candidate(s.cells))

\* One iteration of the for loop of the innermost call.
solve_iterate ==
    /\ pc = "solve"
    /\ top.mode = "loop"
    /\ IF top.iter >= IterationCeiling
       THEN continue_solve([top EXCEPT !.mode = "ret", !.res = ErrNoClose])
       ELSE swept(solve_one(top.cells))
    /\ UNCHANGED <<overflow_checks, last, before, ret, sets, bitset>>

\* speculated with `let speculator = self` for the copy: the set of the guess
\* is made on the caller's board.
speculated_in_place(at, speculator) ==
    IF speculator.res.kind = "Panic" THEN abort(at)
    ELSE IF speculator.res.kind = "Err"
    THEN continue_solve([at EXCEPT !.mode = "ret", !.res = speculator.res])
    ELSE /\ stack_becomes(Append(replace_top([at EXCEPT !.cells = speculator.cells]),
                                 new_frame(speculator.cells)))
         /\ UNCHANGED <<pc, result>>

\* The speculator is set: at is the caller's record at this option, speculator
\* what set returned on the copy.
speculated(at, speculator) ==
    IF speculator.res.kind = "Panic" THEN abort(at)
    ELSE IF speculator.res.kind = "Err"
    THEN continue_solve([at EXCEPT !.mode = "ret", !.res = speculator.res])
    ELSE /\ stack_becomes(Append(replace_top(at), new_frame(speculator.cells)))
         /\ UNCHANGED <<pc, result>>

\* speculate_from returning, when no option is left, the error of a cell without
\* options in place of "All options lead to failure!".
speculate_from_own_error(n) ==
    IF n.shifter = {}
    THEN continue_solve([top EXCEPT !.value = n.value, !.shifter = n.shifter, !.mode = "ret",
                                    !.res = ErrNoOptions(top.candidate_rdx, top.candidate_cdx)])
    ELSE speculated([top EXCEPT !.value = n.value, !.shifter = n.shifter],
                    set(top.cells, top.candidate_rdx, top.candidate_cdx, Value(n.value)))

\* The while loop from the option n on.
speculate_from(n) ==
    IF n.shifter = {}
    THEN continue_solve([top EXCEPT !.value = n.value, !.shifter = n.shifter,
                                    !.mode = "ret", !.res = ErrAllFail])
    ELSE speculated([top EXCEPT !.value = n.value, !.shifter = n.shifter],
                    set(top.cells, top.candidate_rdx, top.candidate_cdx, Value(n.value)))

\* solve_speculate trying the options in no fixed order: any option of the
\* candidate may be the next.
solve_speculate_unordered ==
    /\ pc = "solve"
    /\ top.mode = "spec"
    /\ IF top.shifter = {}
       THEN speculate_from([value |-> top.value, shifter |-> {}])
       ELSE \E bit \in top.shifter :
                speculate_from([value |-> top.value + bit,
                                shifter |-> {i - bit : i \in {j \in top.shifter : j >= bit}}])
    /\ UNCHANGED <<overflow_checks, last, before, ret, sets, bitset>>

\* The while loop up to the next recursive call, or to its end.
solve_speculate ==
    /\ pc = "solve"
    /\ top.mode = "spec"
    /\ speculate_from(next_option(top.value, top.shifter))
    /\ UNCHANGED <<overflow_checks, last, before, ret, sets, bitset>>

\* solve_return_inner with `speculator.solve()?` for the if: the failure of a
\* guess is the failure of the caller.
solve_return_inner_propagating ==
    /\ pc = "solve"
    /\ top.mode = "ret"
    /\ Len(stack) > 1
    /\ LET caller == stack[Len(stack) - 1]
           rest == SubSeq(stack, 1, Len(stack) - 2)
       IN  IF top.res.kind = "Ok"
           THEN stack_becomes(Append(rest, [caller EXCEPT !.cells = top.cells, !.mode = "ret", !.res = Ok]))
           ELSE stack_becomes(Append(rest, [caller EXCEPT !.mode = "ret", !.res = top.res]))
    /\ UNCHANGED <<overflow_checks, pc, result, last, before, ret, sets, bitset>>

\* The innermost call returns to the while loop of its caller.
solve_return_inner ==
    /\ pc = "solve"
    /\ top.mode = "ret"
    /\ Len(stack) > 1
    /\ LET caller == stack[Len(stack) - 1]
           rest == SubSeq(stack, 1, Len(stack) - 2)
       IN  IF top.res.kind = "Ok"
           THEN stack_becomes(Append(rest, [caller EXCEPT !.cells = top.cells, !.mode = "ret", !.res = Ok]))
           ELSE stack_becomes(Append(rest, [caller EXCEPT !.value = @ + 1, !.shifter = shr(@)]))
    /\ UNCHANGED <<overflow_checks, pc, result, last, before, ret, sets, bitset>>

\* The outermost call returns to the caller of solve.
solve_return_outer ==
    /\ pc = "solve"
    /\ top.mode = "ret"
    /\ Len(stack) = 1
    /\ stack' = <<>>
    /\ cells' = top.cells
    /\ result' = top.res
    /\ pc' = "idle"
    /\ UNCHANGED <<overflow_checks, last, before, ret, sets, bitset>>

solve_call ==
    /\ pc = "idle"
    /\ pc' = "solve"
    /\ stack' = <<new_frame(cells)>>
    /\ last' = "solve"
    /\ before' = cells
    /\ result' = NoResult
    /\ UNCHANGED <<cells, overflow_checks, ret, sets, bitset>>

----------------------------------------------------------------------------
(* Board::solve as a function of the board: what a whole call returns and the
   board it leaves *)

outcome(b, res) == [cells |-> b, res |-> res]

RECURSIVE solve_from(_, _)
RECURSIVE solve_options(_, _, _, _)
\* `if speculator.solve().is_ok()`: r is the outcome of the recursive call.
solve_branch(b, sel, value, shifter, r) ==
    IF r.res.kind = "Ok" THEN outcome(r.cells, Ok)
    ELSE IF r.res.kind = "Panic" THEN outcome(b, Panic)
    ELSE solve_options(b, sel, value + 1, shr(shifter))

\* `speculator.set(...)?`: speculator is what set returned on the copy.
solve_guess(b, sel, value, shifter, speculator) ==
    IF speculator.res.kind # "Ok" THEN outcome(b, speculator.res)
    ELSE solve_branch(b, sel, value, shifter, solve_from(speculator.cells, 1))

\* The while loop over the options of the candidate sel, from value on.
solve_options(b, sel, value, shifter) ==
    IF shifter = {} THEN outcome(b, ErrAllFail)
    ELSE IF 0 \notin shifter THEN solve_options(b, sel, value + 1, shr(shifter))
    ELSE solve_guess(b, sel, value, shifter, set(b, sel.rdx, sel.cdx, Value(value)))

\* The sweep stalled on b: sel is the candidate the scan picked.
solve_stalled(b, sel, iter) ==
    IF b[sel.rdx][sel.cdx].tag # "Options" THEN solve_from(b, iter + 1)
    ELSE solve_options(b, sel, 1, b[sel.rdx][sel.cdx].opts)

\* The match on what solve_one returned, s.
solve_swept(s, iter) ==
    IF s.res.kind # "Ok" THEN outcome(s.cells, s.res)
    ELSE IF s.options = 0 THEN outcome(s.cells, Ok)
    ELSE IF s.changed THEN solve_from(s.cells, iter + 1)
    ELSE solve_stalled(s.cells, candidate(s.cells), iter)

\* The for loop from its iteration iter on.
solve_from(b, iter) ==
    IF iter >= IterationCeiling THEN outcome(b, ErrNoClose)
    ELSE solve_swept(solve_one(b), iter)

solve(b) == solve_from(b, 1)

----------------------------------------------------------------------------
(* The other calls on the board *)

NoRet == [options |-> 0 - 1, changed |-> FALSE]

finish(res) ==
    /\ result' = res
    /\ pc' = IF res.kind = "Panic" THEN "aborted" ELSE "idle"

check_call ==
    /\ pc = "idle"
    /\ finish(check(cells))
    /\ last' = "check"
    /\ before' = cells
    /\ UNCHANGED <<cells, overflow_checks, stack, ret, sets, bitset>>

\* s is what set returned.
set_done(s) ==
    /\ cells' = s.cells
    /\ finish(s.res)

set_call(row_, col_, value) ==
    /\ pc = "idle"
    /\ set_done(set(cells, row_, col_, value))
    /\ last' = "set"
    /\ before' = cells
    /\ sets' = sets + 1
    /\ UNCHANGED <<overflow_checks, stack, ret, bitset>>

\* s is what solve_one returned.
solve_one_done(s) ==
    /\ cells' = s.cells
    /\ finish(s.res)
    /\ ret' = IF s.res.kind = "Ok"
              THEN [options |-> s.options, changed |-> s.changed]
              ELSE NoRet

solve_one_call ==
    /\ pc = "idle"
    /\ solve_one_done(solve_one(cells))
    /\ last' = "solve_one"
    /\ before' = cells
    /\ UNCHANGED <<overflow_checks, stack, sets, bitset>>

----------------------------------------------------------------------------
(* BitSet and Biterator of src/src/game/bitset.rs: data is the set of the
   positions of the one-bits of the usize *)

WordBits == 64

BiteratorLimit == 16

None == [some |-> FALSE, value |-> 0]

Some(v) == [some |-> TRUE, value |-> v]

BitSet_set(data, value) == data \cup {value}

BitSet_unset(data, value) == data \ {value}

RECURSIVE new_from(_, _, _)
new_from(values, i, bs) ==
    IF i > Len(values) THEN bs ELSE new_from(values, i + 1, BitSet_set(bs, values[i]))

BitSet_new(values) == new_from(values, 1, {})

BitSet_foreach(data) == [data |-> data, index |-> 0]

BitSet_empty(data) == data = {}

BitSet_count(data) == Cardinality(data)

\* data - 1, for a data that is not 0: the lowest one-bit is cleared and every
\* bit below it is set.
minus_one(data) == (data \ {Min(data)}) \cup {i \in 0..(WordBits - 1) : i < Min(data)}

\* BitSet_singleton without the test of `data & (data - 1)`.
BitSet_singleton_untested(data) ==
    IF BitSet_empty(data) THEN None ELSE Some(Min(data))

BitSet_singleton(data) ==
    IF BitSet_empty(data) THEN None
    ELSE IF data \cap minus_one(data) # {} THEN None
    ELSE Some(Min(data))

BitSet_has(data, value) == data \cap {value} # {}

BitSet_intersect(data, other) == data \cap other

\* BitSet_union with ^ for |.
BitSet_union_xor(data, other) == (data \cup other) \ (data \cap other)

BitSet_union(data, other) == data \cup other

\* Biterator_next with `while self.index != 9`.
RECURSIVE Biterator_next_short(_)
Biterator_next_short(it) ==
    IF it.index = 9 THEN [it |-> it, value |-> None]
    ELSE IF 0 \in it.data
         THEN [it |-> [data |-> shr(it.data), index |-> it.index + 1], value |-> Some(it.index)]
         ELSE Biterator_next_short([data |-> shr(it.data), index |-> it.index + 1])

\* Biterator::next: the iterator after the call and the value returned.
RECURSIVE Biterator_next(_)
Biterator_next(it) ==
    IF it.index = BiteratorLimit THEN [it |-> it, value |-> None]
    ELSE IF 0 \in it.data
         THEN [it |-> [data |-> shr(it.data), index |-> it.index + 1], value |-> Some(it.index)]
         ELSE Biterator_next([data |-> shr(it.data), index |-> it.index + 1])

\* The values the callers put into sets: the ends of the digit range 1..9, and
\* the lowest and the highest bit below the index the Biterator stops at.
BitValues == {0, 1, 9, 15}

SetNames == {"a", "b", "c"}

\* The state before any BitSet call: three sets made by BitSet::new(&[]).
BitSetStart ==
    [a |-> BitSet_new(<<>>), b |-> BitSet_new(<<>>), c |-> BitSet_new(<<>>),
     phase |-> "build", it |-> BitSet_foreach({}), yielded |-> <<>>]

board_vars == <<cells, overflow_checks, pc, stack, result, last, before, ret, sets>>

bitset_set(name, value) ==
    /\ bitset.phase = "build"
    /\ bitset' = [bitset EXCEPT ![name] = BitSet_set(@, value)]
    /\ UNCHANGED board_vars

bitset_unset(name, value) ==
    /\ bitset.phase = "build"
    /\ bitset' = [bitset EXCEPT ![name] = BitSet_unset(@, value)]
    /\ UNCHANGED board_vars

bitset_intersect ==
    /\ bitset.phase = "build"
    /\ bitset' = [bitset EXCEPT !.a = BitSet_intersect(bitset.a, bitset.b)]
    /\ UNCHANGED board_vars

bitset_union ==
    /\ bitset.phase = "build"
    /\ bitset' = [bitset EXCEPT !.a = BitSet_union(bitset.a, bitset.b)]
    /\ UNCHANGED board_vars

\* for x in a.foreach(): the loop starts.
bitset_foreach ==
    /\ bitset.phase = "build"
    /\ bitset' = [bitset EXCEPT !.phase = "iterate", !.it = BitSet_foreach(bitset.a),
                                !.yielded = <<>>]
    /\ UNCHANGED board_vars

\* r is what Biterator::next returned: the loop body runs, or the loop ends.
bitset_yield(r) ==
    bitset' = [bitset EXCEPT !.it = r.it,
                             !.phase = IF r.value.some THEN "iterate" ELSE "done",
                             !.yielded = IF r.value.some THEN Append(@, r.value.value) ELSE @]

bitset_next ==
    /\ bitset.phase = "iterate"
    /\ bitset_yield(Biterator_next(bitset.it))
    /\ UNCHANGED board_vars

----------------------------------------------------------------------------
(* The boards of the tests, written as the tests write them (0 for ANY) *)

board_of(g) ==
    [r \in Idx |-> [c \in Idx |-> IF g[r + 1][c + 1] = 0 THEN ANY ELSE Value(g[r + 1][c + 1])]]

Solution ==
    << <<2, 4, 9, 7, 5, 1, 8, 6, 3>>,
       <<1, 3, 5, 8, 6, 9, 7, 4, 2>>,
       <<8, 6, 7, 2, 4, 3, 9, 5, 1>>,
       <<7, 8, 6, 3, 1, 2, 4, 9, 5>>,
       <<5, 2, 3, 9, 8, 4, 6, 1, 7>>,
       <<9, 1, 4, 5, 7, 6, 2, 3, 8>>,
       <<4, 7, 1, 6, 2, 5, 3, 8, 9>>,
       <<6, 9, 8, 1, 3, 7, 5, 2, 4>>,
       <<3, 5, 2, 4, 9, 8, 1, 7, 6>> >>

SolveFailsInput ==
    << <<1, 0, 0, 0, 0, 0, 0, 0, 0>>,
       <<0, 9, 8, 7, 6, 5, 4, 3, 2>>,
       <<2, 0, 0, 0, 0, 0, 0, 0, 0>>,
       <<3, 0, 0, 0, 0, 0, 0, 0, 0>>,
       <<4, 0, 0, 0, 0, 0, 0, 0, 0>>,
       <<5, 0, 0, 0, 0, 0, 0, 0, 0>>,
       <<6, 0, 0, 0, 0, 0, 0, 0, 0>>,
       <<7, 0, 0, 0, 0, 0, 0, 0, 0>>,
       <<8, 0, 0, 0, 0, 0, 0, 0, 0>> >>

SuperEasyInput ==
    << <<0, 4, 9, 7, 5, 1, 8, 6, 3>>,
       <<1, 0, 5, 8, 6, 9, 7, 4, 2>>,
       <<8, 6, 0, 2, 4, 3, 9, 5, 1>>,
       <<7, 8, 6, 0, 1, 2, 4, 9, 5>>,
       <<5, 2, 3, 9, 0, 4, 6, 1, 7>>,
       <<9, 1, 4, 5, 7, 0, 2, 3, 8>>,
       <<4, 7, 1, 6, 2, 5, 0, 8, 9>>,
       <<6, 9, 8, 1, 3, 7, 5, 0, 4>>,
       <<3, 5, 2, 4, 9, 8, 1, 7, 0>> >>

SuperHardInput ==
    << <<0, 4, 0, 7, 0, 1, 0, 0, 3>>,
       <<1, 3, 0, 0, 0, 0, 0, 4, 0>>,
       <<8, 0, 0, 0, 0, 0, 9, 5, 0>>,
       <<0, 8, 0, 3, 0, 2, 0, 0, 5>>,
       <<0, 0, 0, 0, 8, 0, 0, 0, 0>>,
       <<9, 0, 0, 5, 0, 6, 0, 3, 0>>,
       <<0, 7, 1, 0, 0, 0, 0, 0, 9>>,
       <<0, 9, 0, 0, 0, 0, 0, 2, 4>>,
       <<3, 0, 0, 4, 0, 8, 0, 7, 0>> >>

HardestInput ==
    << <<0, 0, 5, 3, 0, 0, 0, 0, 0>>,
       <<8, 0, 0, 0, 0, 0, 0, 2, 0>>,
       <<0, 7, 0, 0, 1, 0, 5, 0, 0>>,
       <<4, 0, 0, 0, 0, 5, 3, 0, 0>>,
       <<0, 1, 0, 0, 7, 0, 0, 0, 6>>,
       <<0, 0, 3, 2, 0, 0, 0, 8, 0>>,
       <<0, 6, 0, 5, 0, 0, 0, 0, 9>>,
       <<0, 0, 4, 0, 0, 0, 0, 3, 0>>,
       <<0, 0, 0, 0, 0, 9, 7, 0, 0>> >>

\* A board that solve reaches on a speculative copy while it solves the hardest
\* board: it passes check and has no completion.
ConflictInput ==
    << <<1, 0, 5, 3, 0, 0, 0, 0, 0>>,
       <<8, 3, 0, 7, 5, 0, 0, 2, 0>>,
       <<0, 7, 0, 0, 1, 0, 5, 0, 0>>,
       <<4, 2, 0, 0, 0, 5, 3, 0, 0>>,
       <<9, 1, 8, 4, 7, 3, 2, 5, 6>>,
       <<0, 5, 3, 2, 0, 0, 0, 8, 0>>,
       <<3, 6, 2, 5, 4, 7, 8, 1, 9>>,
       <<7, 9, 4, 0, 2, 0, 6, 3, 5>>,
       <<5, 8, 1, 6, 3, 9, 7, 4, 2>> >>

TestBoards == {board_of(SolveFailsInput), board_of(SuperEasyInput)}

\* The hardest board with a 9 at (1, 1): it passes check and has no completion.
HardestWrong == [board_of(HardestInput) EXCEPT ![1][1] = Value(9)]

----------------------------------------------------------------------------
(* The boards and the inputs the model explores *)

MaxGroups == 2

MaxSets == 1

\* Groups of cells that may be blank in an initial board.  Solution holds 7 8 / 8 7
\* on the corners of the first rectangle and 7 5 / 5 7 on those of the second, so
\* a board with a whole rectangle blank has two completions.
BlankGroups ==
    { {<<0, 3>>, <<0, 6>>, <<1, 3>>, <<1, 6>>},
      {<<3, 0>>, <<3, 8>>, <<4, 0>>, <<4, 8>>},
      {<<0, 3>>},
      {<<0, 3>>, <<0, 6>>},
      {<<0, 3>>, <<1, 3>>},
      {<<4, 4>>} }

blanked(S) ==
    [r \in Idx |-> [c \in Idx |-> IF <<r, c>> \in S THEN ANY ELSE Value(Solution[r + 1][c + 1])]]

BlankedBoards ==
    {blanked(UNION gs) : gs \in {hs \in SUBSET BlankGroups : Cardinality(hs) <= MaxGroups}}

\* The (row, col, value) arguments of the set calls the caller makes.
SetInputs ==
    { <<0, 3, Value(6)>>, <<0, 3, Value(8)>>, <<0, 3, Options({7})>>, <<0, 3, Options({})>>,
      <<4, 4, Value(6)>> }

\* Board content outside the data model: digits that are not 1..9, masks with bits
\* that are no digit.
MalformedCell == <<4, 4>>

MalformedValues ==
    {Value(0), Value(10), Value(17), Value(33), Options(0..15), Options({9})}

\* The first rectangle blank and a 17 in each row, column and block of its
\* corners.  check keeps 17 apart from 1 (bit 16 of an i32); without overflow
\* checks the u16 mask toggles bit 0 for both, so every blank cell is left with
\* the options 1, 7 and 8 although its row holds a 1.
AliasedBoard ==
    [blanked({<<0, 3>>, <<0, 6>>, <<1, 3>>, <<1, 6>>})
        EXCEPT ![0][4] = Value(17), ![1][7] = Value(17), ![3][3] = Value(17), ![4][6] = Value(17)]

MalformedBoards ==
    {[b EXCEPT ![MalformedCell[1]][MalformedCell[2]] = w] : b \in BlankedBoards, w \in MalformedValues}
        \cup {AliasedBoard}

InitWith(boards) ==
    /\ cells \in boards
    /\ overflow_checks \in BOOLEAN
    /\ pc = "idle"
    /\ stack = <<>>
    /\ result = NoResult
    /\ last = "none"
    /\ before = cells
    /\ ret = NoRet
    /\ sets = 0
    /\ bitset = BitSetStart

Init == InitWith(BlankedBoards \cup TestBoards)

InitMalformed == InitWith(MalformedBoards)

\* Boards on which solve has to speculate, some of the guesses failing, a board
\* on which a sweep ends in a conflict, a board with more than one completion,
\* and a board with a cell whose set the caller
\* has already narrowed to the digit 8.
HardBoards ==
    {board_of(HardestInput), board_of(SuperHardInput), HardestWrong,
     board_of(SolveFailsInput), board_of(ConflictInput),
     blanked({<<0, 3>>, <<0, 6>>, <<1, 3>>, <<1, 6>>, <<3, 0>>, <<3, 8>>, <<4, 0>>, <<4, 8>>, <<4, 4>>}),
     [blanked({<<0, 3>>, <<0, 6>>, <<1, 3>>, <<1, 6>>}) EXCEPT ![0][3] = Options({7})]}

InitHard == InitWith(HardBoards)

solve_step ==
    \/ solve_call
    \/ solve_iterate
    \/ solve_speculate
    \/ solve_return_inner
    \/ solve_return_outer

Next ==
    \/ check_call
    \/ \E in \in SetInputs : sets < MaxSets /\ set_call(in[1], in[2], in[3])
    \/ solve_one_call
    \/ solve_step

NextHard ==
    \/ check_call
    \/ solve_one_call
    \/ solve_step

NextBitSet ==
    \/ \E name \in SetNames, value \in BitValues : bitset_set(name, value)
    \/ \E name \in SetNames, value \in BitValues : bitset_unset(name, value)
    \/ bitset_intersect
    \/ bitset_union
    \/ bitset_foreach
    \/ bitset_next

InitBitSet == InitWith({blanked({})}) /\ overflow_checks = TRUE

Spec == Init /\ [][Next]_vars

SpecMalformed == InitMalformed /\ [][Next]_vars

SpecHard == InitHard /\ [][NextHard]_vars

SpecBitSet == InitBitSet /\ [][NextBitSet]_vars

----------------------------------------------------------------------------
(* The vocabulary of the properties: positions, ranges, completions *)

Cells == Idx \X Idx

at(b, p) == b[p[1]][p[2]]

IsFixed(b, p) == at(b, p).tag = "Value"

Blanks(b) == {p \in Cells : ~IsFixed(b, p)}

\* The 9 rows, the 9 columns and the 9 blocks, each as a set of positions.
Ranges ==
    {{<<r, c>> : c \in Idx} : r \in Idx}
    \cup {{<<r, c>> : r \in Idx} : c \in Idx}
    \cup {{<<3 * br + i, 3 * bc + j>> : i \in 0..2, j \in 0..2} : br \in 0..2, bc \in 0..2}

\* Two Fixed cells of one range hold the digit d.
Duplicated(b, d) ==
    \E R \in Ranges : \E p \in R : \E q \in R \ {p} :
        /\ IsFixed(b, p) /\ at(b, p).v = d
        /\ IsFixed(b, q) /\ at(b, q).v = d

NoDuplicate(b) ==
    \A R \in Ranges : \A p \in R : \A q \in R \ {p} :
        IsFixed(b, p) /\ IsFixed(b, q) => at(b, p).v # at(b, q).v

\* Every range holds every digit exactly once.
Complete(b) ==
    \A R \in Ranges : \A d \in 1..9 :
        Cardinality({p \in R : IsFixed(b, p) /\ at(b, p).v = d}) = 1

\* The digits the row, the column and the block of p hold (and 0, which the
\* record of a blank holds and which is no digit).
Used(b, p) ==
    {b[p[1]][c].v : c \in Idx}
    \cup {b[r][p[2]].v : r \in Idx}
    \cup {b[3 * (p[1] \div 3) + i][3 * (p[2] \div 3) + j].v : i \in 0..2, j \in 0..2}

\* The digits of the candidate set of the blank p that no peer of p holds.
Legal(b, p) == {d \in 1..9 : d - 1 \in at(b, p).opts} \ Used(b, p)

\* The complete grids that extend a board without duplicates, by exhaustive
\* search on a blank with the fewest legal digits.
RECURSIVE Fill(_)
FillAt(b, choice) ==
    UNION {Fill([b EXCEPT ![choice[1][1]][choice[1][2]] = Value(d)]) : d \in choice[2]}

FillAmong(b, choices, fewest) ==
    FillAt(b, CHOOSE x \in choices : Cardinality(x[2]) = fewest)

FillFrom(b, choices) ==
    FillAmong(b, choices, Min({Cardinality(x[2]) : x \in choices}))

Fill(b) ==
    IF Blanks(b) = {} THEN {b} ELSE FillFrom(b, {<<p, Legal(b, p)>> : p \in Blanks(b)})

\* The completions of b: the full valid grids that agree with every Fixed cell
\* and take every other cell's digit from its candidate set.
Completions(b) == IF NoDuplicate(b) THEN Fill(b) ELSE {}

\* The grid G agrees with the board b.
Agrees(b, G) ==
    \A p \in Cells :
        IF IsFixed(b, p) THEN at(G, p) = at(b, p) ELSE at(G, p).v - 1 \in at(b, p).opts

\* From b to b2 no Fixed cell changed, no candidate set grew, and a cell that
\* became Fixed took a digit of its candidate set.
Monotone(b, b2) ==
    \A p \in Cells :
        IF IsFixed(b, p) THEN at(b2, p) = at(b, p)
        ELSE IF IsFixed(b2, p) THEN at(b2, p).v - 1 \in at(b, p).opts
        ELSE at(b2, p).opts \subseteq at(b, p).opts

Returned(call) == last = call /\ pc = "idle"

Succeeded(call) == Returned(call) /\ result.kind = "Ok"

----------------------------------------------------------------------------
(* Properties of Board::solve *)

\* C1: whenever solve returns success, every cell of the board is Fixed, the
\* board passes check with every row, column and block holding every digit 1..9
\* exactly once, and every cell that was Fixed in the input board still holds
\* the same digit.
SolveSuccessIsSolution ==
    Succeeded("solve") =>
        /\ Blanks(cells) = {}
        /\ check(cells) = Ok
        /\ Complete(cells)
        /\ \A p \in Cells : IsFixed(before, p) => at(cells, p) = at(before, p)

\* solve returned success on the board of main, which it cannot solve
\* without guessing.
SolveSuccessWitness ==
    /\ Succeeded("solve")
    /\ before = board_of(HardestInput)
    /\ cells # before

\* C2: if the input board passes check and has at least one completion, solve
\* returns success; solve returns an error only when the board has no completion.
SolveSucceedsIffCompletion ==
    Returned("solve") =>
        /\ (check(before) = Ok /\ Completions(before) # {} => result.kind = "Ok")
        /\ (result.kind = "Err" => Completions(before) = {})

\* solve returned success on a board with more than one completion.
SolveCompletionWitness ==
    /\ Succeeded("solve")
    /\ Cardinality(Completions(before)) > 1

----------------------------------------------------------------------------
(* Properties of Board::check *)

\* The board with every Options cell replaced by Options(o).
WithOptions(b, o) ==
    [r \in Idx |-> [c \in Idx |-> IF b[r][c].tag = "Options" THEN Options(o) ELSE b[r][c]]]

\* C3: check succeeds exactly when no row, column or block holds two Fixed cells
\* with the same digit; what the Options cells hold never changes the outcome;
\* and when check fails, its error names a digit that some row, column or block
\* holds twice.
CheckIffNoDuplicate ==
    /\ check(cells).kind = "Ok" <=> NoDuplicate(cells)
    /\ check(cells).kind # "Ok" =>
           /\ check(cells).kind = "Err"
           /\ check(cells).msg = "Multiple seen"
           /\ Duplicated(cells, check(cells).x)
    /\ \A o \in {{}, {0}, ALL} : check(WithOptions(cells, o)) = check(cells)
    /\ Returned("check") => result = check(cells)

\* check returned an error on a board with blanks whose only duplicate is in a
\* block: the 6 at (0, 3) and the 6 at (1, 4).
CheckDuplicateWitness ==
    /\ Returned("check")
    /\ result = ErrMultiple(6)
    /\ cells = [board_of(SolveFailsInput) EXCEPT ![0][3] = Value(6)]

----------------------------------------------------------------------------
(* Properties of Board::solve_one *)

\* C4: solve_one preserves every completion: every full valid grid G that agrees
\* with the board before the sweep agrees with the board after a successful
\* sweep (each Fixed cell equals G's digit, each candidate set contains it).
SweepPreservesCompletions ==
    Succeeded("solve_one") => \A G \in Completions(before) : Agrees(cells, G)

\* A successful sweep fixed a cell of a board with more than one completion.
SweepPreservesWitness ==
    /\ Succeeded("solve_one")
    /\ Cardinality(Completions(before)) > 1
    /\ \E p \in Blanks(before) : IsFixed(cells, p)

\* C5: across solve_one and solve calls, the adoption of a successful
\* speculative copy included, a Fixed cell never changes its digit and never
\* becomes Options again, the set of an Options cell only shrinks, and an
\* Options cell that becomes Fixed takes a digit of its set.  The same holds of
\* the board of every running solve call, and of the copy a guess is made on.
CellsOnlyNarrow ==
    [][sets' = sets =>
          /\ Monotone(cells, cells')
          /\ \A i \in 1..Len(stack) :
                 i <= Len(stack') => Monotone(stack[i].cells, stack'[i].cells)
          /\ Len(stack) > 0 /\ Len(stack') > Len(stack) =>
                 Monotone(top.cells, stack'[Len(stack')].cells)]_vars

\* The outermost solve call has adopted the board of a successful guess.
AdoptionWitness ==
    /\ pc = "solve"
    /\ Len(stack) = 1
    /\ top.mode = "ret"
    /\ top.res = Ok
    /\ top.shifter # {}
    /\ cells # before

\* C6: whenever set, solve_one or solve returns success, the resulting board
\* passes check: it holds no two equal Fixed digits in a row, column or block.
SuccessLeavesValidBoard ==
    \A call \in {"set", "solve_one", "solve"} :
        Succeeded(call) => check(cells) = Ok /\ NoDuplicate(cells)

\* A set call has fixed a blank cell and returned success.
SetSuccessWitness ==
    /\ Succeeded("set")
    /\ \E p \in Blanks(before) : IsFixed(cells, p)

\* C7: check, solve_one and solve return a result, success or a described
\* error, on any board content; none of them aborts on an arithmetic or shift
\* overflow.
NeverAborts == pc # "aborted" /\ result.kind # "Panic"

\* Some Options cell of b has all the digits of its set Fixed among its peers.
DeadCell(b) == \E p \in Blanks(b) : Legal(b, p) = {}

\* C8: if the board passes check but some Options cell has every digit of its set
\* already Fixed in its row, column or block, solve_one returns an error, and so
\* does solve.
DeadCellFails ==
    \A call \in {"solve_one", "solve"} :
        Returned(call) /\ check(before) = Ok /\ DeadCell(before) => result.kind = "Err"

\* solve_one returned from the board of check_solve_fails, where the blank of
\* the second row has no digit left.
DeadCellWitness ==
    /\ Returned("solve_one")
    /\ before = board_of(SolveFailsInput)
    /\ result.kind = "Err"

\* A complete valid grid with at least one cell replaced by ANY, no two of
\* them in one row.
OneBlankPerRow(b) ==
    /\ Blanks(b) # {}
    /\ \A p \in Blanks(b) : at(b, p) = ANY
    /\ \A p \in Blanks(b) : \A q \in Blanks(b) : p # q => p[1] # q[1]
    /\ Completions(b) # {}

\* C9: a single solve_one completes such a board back to the grid, and returns
\* zero remaining Options cells and changed = true.
SingleSweepCompletes ==
    Returned("solve_one") /\ OneBlankPerRow(before) =>
        /\ result = Ok
        /\ ret = [options |-> 0, changed |-> TRUE]
        /\ Completions(before) = {cells}

\* solve_one returned from the board of check_solve_super_easy.
SingleSweepWitness ==
    /\ Returned("solve_one")
    /\ before = board_of(SuperEasyInput)
    /\ cells = board_of(Solution)

\* C10: solve_one on a board whose cells are all Fixed and which passes check
\* leaves the board unchanged and returns zero remaining Options cells with
\* changed = false; solve on such a board returns success without changing it.
SolvedBoardIsFixpoint ==
    Blanks(before) = {} /\ check(before) = Ok =>
        /\ Returned("solve_one") =>
               result = Ok /\ cells = before /\ ret = [options |-> 0, changed |-> FALSE]
        /\ Returned("solve") => result = Ok /\ cells = before

\* solve_one returned from a board that was complete and valid.
SolvedBoardWitness ==
    /\ Returned("solve_one")
    /\ Blanks(before) = {}
    /\ NoDuplicate(before)

----------------------------------------------------------------------------
(* Further properties of Board::solve *)

SameOutcome(r) == result = r.res /\ cells = r.cells

\* C11: solve is deterministic: what a run of solve returns and the board it
\* leaves are a function of the input board, so two runs on equal boards end
\* alike, also when the board has several completions.
SolveIsFunction == Returned("solve") => SameOutcome(solve(before))

\* solve returned from a board with four completions.
SolveFunctionWitness ==
    /\ Returned("solve")
    /\ Cardinality(Completions(before)) = 4
    /\ cells \in Completions(before)

----------------------------------------------------------------------------
(* Properties of BitSet *)

BitSetsAtHand == {bitset[name] : name \in SetNames}

\* The values BitSet::has answers true for.
Members(S) == {d \in 0..(WordBits - 1) : BitSet_has(S, d)}

\* C12: singleton returns a value if and only if count is 1, and the value is
\* then the one member of the set; it returns None for the empty set and for
\* every set with two or more members.
SingletonIffCountOne ==
    \A S \in BitSetsAtHand :
        /\ BitSet_singleton(S).some <=> BitSet_count(S) = 1
        /\ BitSet_singleton(S).some => Members(S) = {BitSet_singleton(S).value}
        /\ BitSet_empty(S) \/ BitSet_count(S) >= 2 => BitSet_singleton(S) = None

\* A set with the one member 9, next to a set with two members and the empty set.
SingletonWitness ==
    /\ BitSet_singleton(bitset.a) = Some(9)
    /\ BitSet_count(bitset.b) = 2
    /\ BitSet_empty(bitset.c)

\* C13: a loop over foreach ends, and it has then yielded exactly the values
\* for which has holds, each once, in strictly ascending order.
ForeachYieldsMembers ==
    bitset.phase = "done" =>
        /\ \A i \in 1..Len(bitset.yielded) : \A j \in 1..Len(bitset.yielded) :
               i < j => bitset.yielded[i] < bitset.yielded[j]
        /\ {bitset.yielded[i] : i \in 1..Len(bitset.yielded)} = Members(bitset.a)

\* A loop over the set {1, 9, 15} has ended.
ForeachWitness ==
    /\ bitset.phase = "done"
    /\ bitset.a = {1, 9, 15}
    /\ bitset.yielded = <<1, 9, 15>>

\* C14: intersect and union are commutative and associative, intersect(A, A) = A
\* and union(A, A) = A, and applying the same operand again changes nothing.
IntersectUnionLaws ==
    LET A == bitset.a
        B == bitset.b
        C == bitset.c
    IN  /\ BitSet_intersect(A, B) = BitSet_intersect(B, A)
        /\ BitSet_union(A, B) = BitSet_union(B, A)
        /\ BitSet_intersect(BitSet_intersect(A, B), C) = BitSet_intersect(A, BitSet_intersect(B, C))
        /\ BitSet_union(BitSet_union(A, B), C) = BitSet_union(A, BitSet_union(B, C))
        /\ BitSet_intersect(A, A) = A
        /\ BitSet_union(A, A) = A
        /\ BitSet_intersect(BitSet_intersect(A, B), B) = BitSet_intersect(A, B)
        /\ BitSet_union(BitSet_union(A, B), B) = BitSet_union(A, B)

\* Three different sets that overlap, a the intersection of an earlier a with b.
IntersectUnionWitness ==
    /\ bitset.a = {1, 9}
    /\ bitset.b = {0, 1, 9}
    /\ bitset.c = {9, 15}

----------------------------------------------------------------------------
(* Properties of the speculation of Board::solve *)

\* The activation records that are in the while loop over the options of
\* their candidate.
Speculating == {i \in 1..Len(stack) : stack[i].mode = "spec"}

BranchCell(f) == <<f.candidate_rdx, f.candidate_cdx>>

\* The cell f branches on is an Options cell with the fewest options of the
\* board of f.
FewestOptions(f) ==
    /\ ~IsFixed(f.cells, BranchCell(f))
    /\ \A q \in Blanks(f.cells) :
           Cardinality(at(f.cells, BranchCell(f)).opts) <= Cardinality(at(f.cells, q).opts)

\* The cells of the board of f that have as few options as the cell f branches on.
Tied(f) ==
    {q \in Blanks(f.cells) :
        Cardinality(at(f.cells, q).opts) = Cardinality(at(f.cells, BranchCell(f)).opts)}

\* p is met before q in the row-major scan.
MetBefore(p, q) == p[1] < q[1] \/ (p[1] = q[1] /\ p[2] < q[2])

\* C15 as stated: the cell solve branches on has the fewest options, and among
\* the cells tied for the fewest it is the first met in the row-major scan.
BranchesOnFirstFewest ==
    \A i \in Speculating :
        /\ FewestOptions(stack[i])
        /\ \A q \in Tied(stack[i]) : ~MetBefore(q, BranchCell(stack[i]))

\* C15 as amended: the cell solve branches on has the fewest options, and among
\* the cells tied for the fewest it is the last met in the row-major scan.
BranchesOnLastFewest ==
    \A i \in Speculating :
        /\ FewestOptions(stack[i])
        /\ \A q \in Tied(stack[i]) : ~MetBefore(BranchCell(stack[i]), q)

\* solve branches on a board where several cells are tied for the fewest options.
BranchTieWitness ==
    /\ pc = "solve"
    /\ top.mode = "spec"
    /\ Cardinality(Tied(top)) > 1
    /\ Cardinality(Blanks(top.cells)) > Cardinality(Tied(top))

\* The innermost call returns a failure to the while loop of its caller.
BranchFails ==
    /\ pc = "solve"
    /\ Len(stack) > 1
    /\ top.mode = "ret"
    /\ top.res.kind = "Err"

\* The caller goes on with the next digit: the step pops the failed call and
\* leaves its caller in the while loop, one digit further.
TriesNextDigit ==
    /\ Len(stack') = Len(stack) - 1
    /\ stack'[Len(stack')].mode = "spec"
    /\ stack'[Len(stack')].value = stack[Len(stack) - 1].value + 1
    /\ stack'[Len(stack')].cells = stack[Len(stack) - 1].cells

\* The call that is in its while loop ends in failure at this step.
EnclosingFails ==
    /\ pc = "solve"
    /\ top.mode = "spec"
    /\ Len(stack') = Len(stack)
    /\ stack'[Len(stack')].mode = "ret"

\* C16: a failure inside a speculative branch, be it of the set of the trial
\* digit or of the recursive solve, makes the enclosing solve try the next
\* digit; the enclosing solve fails only when no digit is left to try, and then
\* with ErrAllFail.
BranchFailureIsCaught ==
    [][/\ BranchFails => TriesNextDigit
       /\ EnclosingFails =>
            /\ stack'[Len(stack')].res = ErrAllFail
            /\ stack'[Len(stack')].shifter = {}]_vars

\* A guess has just failed inside a guess: the call two levels down is back in
\* its while loop, past a digit that was an option of its branch cell.
BranchCaughtWitness ==
    /\ pc = "solve"
    /\ Len(stack) > 2
    /\ top.mode = "spec"
    /\ top.value - 2 \in top.cells[top.candidate_rdx][top.candidate_cdx].opts
    /\ top.shifter # {}

----------------------------------------------------------------------------
(* Properties of the re-validation of Board::solve_one *)

\* The innermost call of solve is about to sweep a board that passes check.
SweepsValidBoard ==
    /\ pc = "solve"
    /\ top.mode = "loop"
    /\ top.iter < IterationCeiling
    /\ check(top.cells).kind = "Ok"

\* The sweep of this step failed.
SweepFailed ==
    /\ Len(stack') = Len(stack)
    /\ stack'[Len(stack')].mode = "ret"
    /\ stack'[Len(stack')].res.kind = "Err"

\* A call of solve_one on a board that passes check failed.
CallFailed ==
    /\ pc = "idle"
    /\ check(cells).kind = "Ok"
    /\ last' = "solve_one"
    /\ result'.kind = "Err"

\* C17: a sweep of solve_one that starts from a board that passes check fails
\* only with "There are no remaining options", never with the "Multiple seen"
\* of a validation conflict; the sweeps are those solve makes and the one of a
\* call of solve_one.
SweepNeverConflicts ==
    [][/\ SweepsValidBoard /\ SweepFailed =>
            stack'[Len(stack')].res.msg = "There are no remaining options"
       /\ CallFailed =>
            result'.msg = "There are no remaining options"]_vars

----------------------------------------------------------------------------
(* Properties of the order of the speculation *)

\* The digits the while loop of the activation record f has not tried yet, the
\* one it is trying included.
Remaining(f) == {f.value + i : i \in f.shifter}

\* The step makes a recursive call: the caller is the innermost record before
\* the step.
Recurses ==
    /\ pc = "solve"
    /\ top.mode = "spec"
    /\ Len(stack') = Len(stack) + 1

\* The recursive call is for the smallest digit that is left, on a copy of the
\* caller's board in which only the branch cell is changed, to that digit.
TriesSmallestOnClone ==
    LET caller == stack'[Len(stack)]
        clone == stack'[Len(stack')]
    IN  /\ caller.value = Min(Remaining(top))
        /\ Remaining(caller) = Remaining(top)
        /\ clone = new_frame([top.cells EXCEPT ![top.candidate_rdx][top.candidate_cdx] =
                                                   Value(caller.value)])

\* The failed digit is dropped and nothing else.
DropsFailedDigit ==
    Remaining(stack'[Len(stack')]) = Remaining(stack[Len(stack) - 1]) \ {stack[Len(stack) - 1].value}

\* The innermost call returns success to the while loop of its caller.
BranchSucceeds ==
    /\ pc = "solve"
    /\ Len(stack) > 1
    /\ top.mode = "ret"
    /\ top.res = Ok

\* The branches of the caller for the digits below the one it is trying.
SmallerBranches ==
    LET caller == stack[Len(stack) - 1]
    IN  {set(caller.cells, caller.candidate_rdx, caller.candidate_cdx, Value(bit + 1)) :
            bit \in {i \in caller.cells[caller.candidate_rdx][caller.candidate_cdx].opts :
                        i + 1 < caller.value}}

\* The caller takes the cells of the clone and returns Ok at once; the digit of
\* the branch cell is the one it was trying, and no smaller option has a branch
\* that solves.
AdoptsFirstSuccess ==
    LET caller == stack[Len(stack) - 1]
        after == stack'[Len(stack')]
    IN  /\ Len(stack') = Len(stack) - 1
        /\ after.cells = top.cells
        /\ after.mode = "ret"
        /\ after.res = Ok
        /\ after.cells[caller.candidate_rdx][caller.candidate_cdx] = Value(caller.value)
        /\ \A branch \in SmallerBranches : solve(branch.cells).res.kind # "Ok"

\* C18: the candidate digits of the branch cell are tried in ascending order,
\* each on a fresh clone with only that cell fixed; when a clone solves, the
\* caller's board becomes the clone's cells and solve returns Ok with no larger
\* digit tried, so the digit adopted is the smallest whose branch succeeds.
TriesAscendingAdoptsFirst ==
    [][/\ Recurses => TriesSmallestOnClone
       /\ BranchFails /\ Len(stack') = Len(stack) - 1 => DropsFailedDigit
       /\ BranchSucceeds => AdoptsFirstSuccess]_vars

\* A clone has solved after the clones for smaller digits of the same cell failed.
LaterDigitWitness ==
    /\ BranchSucceeds
    /\ SmallerBranches # {}

----------------------------------------------------------------------------
(* Properties of the copies of the speculation *)

\* The step is the adoption of a solved clone by the activation record i.
Adopts(i) ==
    /\ BranchSucceeds
    /\ i = Len(stack) - 1
    /\ stack'[i].cells = top.cells

\* s is what a sweep returns on a board on which propagation has stopped.
Stalled(b, s) ==
    /\ s.res = Ok
    /\ ~s.changed
    /\ s.options > 0
    /\ s.cells = b

\* The innermost call has tried every option of its branch cell in vain.
Exhausted ==
    /\ pc = "solve"
    /\ top.mode = "ret"
    /\ top.res = ErrAllFail

\* C19: the trials of a speculation never modify the caller's board: as long as
\* a call is in its while loop its board stays as it is unless it adopts a
\* solved clone, and when every branch has failed the board the call hands back
\* is the one on which propagation had stopped.
TrialsLeaveCallerBoard ==
    [][/\ \A i \in Speculating :
            i <= Len(stack') => (stack'[i].cells = stack[i].cells \/ Adopts(i))
       /\ Exhausted => Stalled(top.cells, solve_one(top.cells))
       /\ Exhausted /\ Len(stack) = 1 => cells' = top.cells /\ result' = ErrAllFail]_vars

\* solve has returned the exhausted error after trials on clones, and the
\* caller's board still has blank cells.
ExhaustedWitness ==
    /\ Returned("solve")
    /\ result = ErrAllFail
    /\ Blanks(cells) # {}
    /\ cells # before

----------------------------------------------------------------------------
(* Properties of the termination of Board::solve *)

\* The options that are left on the board b, over all its Options cells.
Candidates(b) ==
    {po \in Cells \X (0..(U16Bits - 1)) : ~IsFixed(b, po[1]) /\ po[2] \in at(b, po[1]).opts}

\* b2 is b with at least one option removed or one Options cell made a Value,
\* and nothing else changed.
Shrinks(b, b2) ==
    /\ Monotone(b, b2)
    /\ b2 # b
    /\ Cardinality(Candidates(b2)) < Cardinality(Candidates(b))

\* The sweep of this step of solve reported changed = true: the call goes to
\* the next iteration of its for loop.
SweepChanged ==
    /\ pc = "solve"
    /\ top.mode = "loop"
    /\ Len(stack') = Len(stack)
    /\ stack'[Len(stack')].mode = "loop"

\* No call has run into the iteration ceiling, the sweeps a call has made are
\* no more than the options that have gone since solve was called, and every
\* recursion level has fewer Options cells than the level above it.
WithinCeiling ==
    /\ result # ErrNoClose
    /\ \A i \in 1..Len(stack) :
           /\ stack[i].res # ErrNoClose
           /\ stack[i].iter < IterationCeiling
           /\ stack[i].iter - 1 <=
                  Cardinality(Candidates(before)) - Cardinality(Candidates(stack[i].cells))
    /\ \A i \in 1..(Len(stack) - 1) :
           Cardinality(Blanks(stack[i + 1].cells)) < Cardinality(Blanks(stack[i].cells))
    /\ Len(stack) <= Cardinality(Blanks(before)) + 1
    /\ Returned("solve_one") /\ result = Ok /\ ret.changed => Shrinks(before, cells)

\* C20: solve never returns "Solution did not close in 1000 iterations" and
\* every loop of it is bounded: a sweep that reports changed = true strictly shrinks the board,
\* so the changing sweeps of a call stay below the iteration ceiling, and every
\* recursion level fixes one more cell, so the depth of the recursion is at
\* most the number of Options cells.
SolveConverges ==
    /\ []WithinCeiling
    /\ [][SweepChanged =>
            /\ Shrinks(top.cells, stack'[Len(stack')].cells)
            /\ stack'[Len(stack')].iter = top.iter + 1]_vars

\* solve is four calls deep on the hardest board, and the innermost call has
\* made a changing sweep.
ConvergedWitness ==
    /\ pc = "solve"
    /\ before = board_of(HardestInput)
    /\ Len(stack) > 4
    /\ top.mode = "loop"
    /\ top.iter > 1

----------------------------------------------------------------------------
(* Properties of the board on which propagation has stopped *)

\* Every Options cell of b has two options or more, and no option of it is the
\* digit of a Value of its row, column or block.
Settled(b) ==
    \A p \in Blanks(b) :
        /\ Cardinality(at(b, p).opts) >= 2
        /\ {bit + 1 : bit \in at(b, p).opts} \cap Used(b, p) = {}

\* The set of every option of the branch cell of f, on a copy of the board of
\* f, returns Ok.
TrialSetSucceeds(f) ==
    \A bit \in f.cells[f.candidate_rdx][f.candidate_cdx].opts :
        set(f.cells, f.candidate_rdx, f.candidate_cdx, Value(bit + 1)).res = Ok

\* The activation record f has left its while loop through the `?` on the set
\* of a trial digit: it returns an error with options still to try.
EarlyReturn(f) ==
    /\ f.mode = "ret"
    /\ f.res.kind = "Err"
    /\ f.shifter # {}

\* C21: when propagation stalls (a sweep returns Ok with changed = false and
\* Options cells left), every Options cell has at least two options and none of
\* them is a Value of its row, column or block; so the set of any option of the
\* branch cell on the copy returns Ok, and solve never returns through the `?`
\* on that set.
StalledBoardIsSettled ==
    /\ \A i \in Speculating : Settled(stack[i].cells) /\ TrialSetSucceeds(stack[i])
    /\ \A i \in 1..Len(stack) : ~EarlyReturn(stack[i])
    /\ Returned("solve_one") /\ result = Ok /\ ~ret.changed /\ ret.options > 0 => Settled(cells)

\* Propagation has stalled on a copy two guesses below the hardest board, with
\* more than twenty cells still open.
StalledWitness ==
    /\ pc = "solve"
    /\ before = board_of(HardestInput)
    /\ Len(stack) > 2
    /\ top.mode = "spec"
    /\ top.value = 1
    /\ Cardinality(Blanks(top.cells)) > 20

====
